---------------------------- MODULE Spec2Model ----------------------------
(***************************************************************************)
(* Model of src/pingtop_recs.py: the engagement-scoring and heuristic      *)
(* recommendation pipeline.                                                *)
(*                                                                         *)
(* Tables (pandas DataFrames) are sequences of records, in row order.      *)
(* Float columns are held exactly, as integers or as fractions:            *)
(*   - event_score, engagement_score, global_engagement, global_pop are    *)
(*     integer multiples of 1/Unit (the input sets keep every              *)
(*     watch_time_sec / duration_sec an exact multiple of 1/Unit);         *)
(*   - global_pop_norm is the fraction pop_num / pop_den;                  *)
(*   - an affinity is the fraction count / total;                          *)
(*   - freshness is the fraction 1 / fresh_den;                            *)
(*   - a recommendation score is score_num / score_den, where score_den is *)
(*     the same for all rows of one call, so rows compare by score_num.    *)
(* A missing value (NaN / NaT) is the number NaN == -1, which no column    *)
(* holds otherwise.                                                        *)
(* sort_values(..., kind='quicksort') is not a stable sort: the order of   *)
(* rows with equal keys is not fixed by the code, so the model lets every  *)
(* sort pick any order of the rows that is descending in the key.          *)
(***************************************************************************)
EXTENDS Integers, Sequences, FiniteSets

VARIABLES
    pings,          \* catalog table as loaded (line 19), rows in file order
    inter,          \* interaction table as loaded (line 18), rows in file order
    pc,             \* "load": tables being filled; "ran": derived tables built;
                    \* "done": recommend_for_user has returned
    user_ping,      \* lines 95-99
    ping_global,    \* lines 102-105
    items,          \* lines 148-157
    user_cat,       \* lines 161-164
    user_creator,   \* lines 166-168
    recs,           \* DataFrame returned by the last recommend_for_user call
    rec_uid,        \* its uid argument ("" before any call)
    rec_k,          \* its topk argument
    run,            \* which execution of the script this is (1 or 2)
    prev,           \* outputs of the previous execution of the script
    row,            \* one interaction row with its duration resolved
    row_score       \* event_score of row (NaN before it is scored)

vars == << pings, inter, pc, user_ping, ping_global, items, user_cat,
           user_creator, recs, rec_uid, rec_k, run, prev, row, row_score >>

---------------------------------------------------------------------------
(* Bounds of the model.                                                    *)

\* Most rows the interaction table is given.
MaxEvents == 2

\* Largest topk passed to recommend_for_user.
MaxTopK == 2

---------------------------------------------------------------------------
(* Representation of values.                                               *)

NaN == -1

\* Denominator of the fixed-point float columns: 1.0 is Unit.
Unit == 60

Range(s) == { s[i] : i \in DOMAIN s }

\* A table given row by row, as the sequence of its rows.
Table(f) == SubSeq(f, 1, Len(f))

RECURSIVE SumSeq(_)
SumSeq(s) == IF s = << >> THEN 0 ELSE Head(s) + SumSeq(Tail(s))

RECURSIVE ProdSet(_)
ProdSet(S) ==
    IF S = {} THEN 1
    ELSE LET x == CHOOSE y \in S : TRUE IN x * ProdSet(S \ {x})

Min2(a, b) == IF a <= b THEN a ELSE b

SetMax(S) == CHOOSE x \in S : \A y \in S : y <= x
SetMin(S) == CHOOSE x \in S : \A y \in S : x <= y

\* Ascending order of the string keys, as pandas' groupby(sort=True) lists them.
UserOrder     == << "u1", "u2", "u3" >>
PingOrder     == << "p1", "p2", "p3", "p9" >>
CategoryOrder == << "catA", "catB" >>
CreatorOrder  == << "c1", "c2" >>

IndexIn(order, x) == CHOOSE i \in DOMAIN order : order[i] = x

\* DescOrders without the sort: the rows stay as they are.
DescOrdersUnsorted(keys) ==
    LET n == Len(keys)
    IN  { [i \in 1..n |-> i] }

\* The permutations of 1..Len(keys) that list keys in non-increasing order: the
\* orders DataFrame.sort_values(ascending=False) may return (quicksort gives
\* rows with equal keys no fixed order).
DescOrders(keys) ==
    LET n == Len(keys)
        k == Table(keys)
        P == { p \in [1..n -> 1..n] : \A i, j \in 1..n : i # j => p[i] # p[j] }
    IN  { q \in P : \A i, j \in 1..n : i < j => k[q[i]] >= k[q[j]] }

Permute(rows, p) == Table([i \in DOMAIN rows |-> rows[p[i]]])

\* DataFrame.head(k)
HeadRows(rows, k) == SubSeq(rows, 1, Min2(k, Len(rows)))

---------------------------------------------------------------------------
(* Event Scorer: lines 70-92.                                              *)

\* line 70: fillna(0)
FillWatch(w) == IF w = NaN THEN 0 ELSE w

\* line 73: np.where(event_type == 'view', watch_time_sec / duration_sec, nan)
WatchTimeRatio(et, w, d) ==
    IF et = "view" THEN (Unit * FillWatch(w)) \div d ELSE NaN

\* lines 76-83
weights == [ view           |-> Unit,
             like           |-> 2 * Unit,
             comment        |-> 3 * Unit,
             share          |-> 4 * Unit,
             follow_creator |-> 2 * Unit,
             impression     |-> Unit \div 10 ]

WeightsGet(et) == IF et \in DOMAIN weights THEN weights[et] ELSE 0

\* event_score with weights[et] answering 1.0 for a type it does not hold.
event_score_NoDefault(r) ==
    IF r.event_type = "view"
    THEN (weights["view"] * (IF r.watch_time_ratio = NaN THEN 0 ELSE r.watch_time_ratio)) \div Unit
    ELSE IF r.event_type \in DOMAIN weights THEN weights[r.event_type] ELSE Unit

\* lines 85-90; r is a row with event_type and watch_time_ratio
event_score(r) ==
    IF r.event_type = "view"
    THEN (weights["view"] * (IF r.watch_time_ratio = NaN THEN 0 ELSE r.watch_time_ratio)) \div Unit
    ELSE WeightsGet(r.event_type)

---------------------------------------------------------------------------
(* Catalog preparation: lines 57-60.                                       *)

DefaultDuration == 30

RECURSIVE SortAsc(_)
SortAsc(S) ==
    IF S = {} THEN << >>
    ELSE LET m == SetMin({ x[1] : x \in S })
             e == CHOOSE x \in S : x[1] = m
         IN  << m >> \o SortAsc(S \ {e})

\* Series.median() of the known durations (skipna); the catalogs of the model
\* keep the mean of the two middle values whole.
Median(cat) ==
    LET known == { << cat[i].duration_sec, i >> : i \in { j \in DOMAIN cat : cat[j].duration_sec # NaN } }
        s     == SortAsc(known)
        n     == Len(s)
    IN  IF n % 2 = 1 THEN s[(n + 1) \div 2]
        ELSE (s[n \div 2] + s[n \div 2 + 1]) \div 2

FillDurations(cat) ==
    IF \A i \in DOMAIN cat : cat[i].duration_sec = NaN
    THEN [i \in DOMAIN cat |-> [cat[i] EXCEPT !.duration_sec = DefaultDuration]]
    ELSE [i \in DOMAIN cat |->
            [cat[i] EXCEPT !.duration_sec =
                IF cat[i].duration_sec = NaN THEN Median(cat) ELSE cat[i].duration_sec]]

InCatalog(cat, pid) == \E i \in DOMAIN cat : cat[i].ping_id = pid

CatalogRow(cat, pid) == cat[CHOOSE i \in DOMAIN cat : cat[i].ping_id = pid]

\* lines 71-72: left merge on ping_id with the catalog of line 60, then
\* fillna(30)
MergedDuration(filled, pid) ==
    IF InCatalog(filled, pid) THEN CatalogRow(filled, pid).duration_sec
    ELSE DefaultDuration

\* lines 70-92: the interaction table with its computed columns
ScoredInter(tbl, cat) ==
    LET filled == FillDurations(cat)
    IN
    Table([i \in DOMAIN tbl |->
        LET d == MergedDuration(filled, tbl[i].ping_id)
            r == WatchTimeRatio(tbl[i].event_type, tbl[i].watch_time_sec, d)
        IN  [ user_id          |-> tbl[i].user_id,
              ping_id          |-> tbl[i].ping_id,
              event_type       |-> tbl[i].event_type,
              watch_time_sec   |-> FillWatch(tbl[i].watch_time_sec),
              duration_sec     |-> d,
              watch_time_ratio |-> r,
              event_score      |-> event_score([event_type |-> tbl[i].event_type,
                                                watch_time_ratio |-> r]) ]])

---------------------------------------------------------------------------
(* Aggregator: lines 95-105.                                               *)

\* The (user_id, ping_id) keys in ascending order.
PairOrder ==
    Table([k \in 1..(Len(UserOrder) * Len(PingOrder)) |->
        << UserOrder[((k - 1) \div Len(PingOrder)) + 1],
           PingOrder[((k - 1) % Len(PingOrder)) + 1] >>])

\* UserPingTable keeping only the first event of each pair.
UserPingFirstOnly(sc) ==
    LET Occurs(k) == \E i \in DOMAIN sc : sc[i].user_id = k[1] /\ sc[i].ping_id = k[2]
        keys == SelectSeq(PairOrder, Occurs)
    IN  Table([n \in DOMAIN keys |->
            LET first == CHOOSE i \in DOMAIN sc :
                             /\ sc[i].user_id = keys[n][1] /\ sc[i].ping_id = keys[n][2]
                             /\ \A j \in 1..(i - 1) :
                                    ~(sc[j].user_id = keys[n][1] /\ sc[j].ping_id = keys[n][2])
            IN  [ user_id          |-> keys[n][1],
                  ping_id          |-> keys[n][2],
                  engagement_score |-> sc[first].event_score,
                  n_events         |-> 1 ]])

\* UserPingTable with engagement_score aggregated by 'last' instead of 'sum'.
UserPingLast(sc) ==
    LET Occurs(k) == \E i \in DOMAIN sc : sc[i].user_id = k[1] /\ sc[i].ping_id = k[2]
        keys == SelectSeq(PairOrder, Occurs)
    IN  Table([n \in DOMAIN keys |->
            LET Mine(i) == sc[i].user_id = keys[n][1] /\ sc[i].ping_id = keys[n][2]
                last    == SetMax({ i \in DOMAIN sc : Mine(i) })
            IN  [ user_id          |-> keys[n][1],
                  ping_id          |-> keys[n][2],
                  engagement_score |-> sc[last].event_score,
                  n_events         |-> Cardinality({ i \in DOMAIN sc : Mine(i) }) ]])

\* lines 95-99: groupby(['user_id','ping_id']).agg(sum, count)
UserPingTable(sc) ==
    LET Occurs(k) == \E i \in DOMAIN sc : sc[i].user_id = k[1] /\ sc[i].ping_id = k[2]
        keys == SelectSeq(PairOrder, Occurs)
    IN  Table([n \in DOMAIN keys |->
            LET Mine(i) == sc[i].user_id = keys[n][1] /\ sc[i].ping_id = keys[n][2]
            IN  [ user_id          |-> keys[n][1],
                  ping_id          |-> keys[n][2],
                  engagement_score |-> SumSeq([i \in DOMAIN sc |->
                                                 IF Mine(i) THEN sc[i].event_score ELSE 0]),
                  n_events         |-> Cardinality({ i \in DOMAIN sc : Mine(i) }) ]])

\* lines 102-104: groupby('ping_id').agg(sum, nunique), before the sort
PingGlobalGrouped(up) ==
    LET Occurs(p) == \E i \in DOMAIN up : up[i].ping_id = p
        keys == SelectSeq(PingOrder, Occurs)
    IN  Table([n \in DOMAIN keys |->
            [ ping_id           |-> keys[n],
              global_engagement |-> SumSeq([i \in DOMAIN up |->
                                              IF up[i].ping_id = keys[n]
                                              THEN up[i].engagement_score ELSE 0]),
              users_interacted  |-> Cardinality({ up[i].user_id :
                                        i \in { j \in DOMAIN up : up[j].ping_id = keys[n] } }) ]])

\* line 105: .sort_values('global_engagement', ascending=False)
PingGlobalTables(up) ==
    LET g == PingGlobalGrouped(up)
    IN  { Permute(g, p) : p \in DescOrders([i \in DOMAIN g |-> g[i].global_engagement]) }

---------------------------------------------------------------------------
(* Item Feature Builder: lines 148-157.                                    *)

DefaultAgeDays == 30

\* line 149: map the sorted ping_global table by ping_id, fillna(0.0)
GlobalPop(pg, pid) ==
    IF \E i \in DOMAIN pg : pg[i].ping_id = pid
    THEN pg[CHOOSE i \in DOMAIN pg : pg[i].ping_id = pid].global_engagement
    ELSE 0

\* line 155: the newest created_at of the catalog, NaN when none is known
\* (the code then takes 2024-02-20, which only ever meets unknown dates)
NowOf(cat) ==
    LET known == { cat[i].created_at : i \in DOMAIN cat } \ {NaN}
    IN  IF known # {} THEN SetMax(known) ELSE NaN

\* line 156: (now - created_at).dt.days.fillna(30)
AgeDays(cat, i) ==
    IF cat[i].created_at = NaN THEN DefaultAgeDays
    ELSE NowOf(cat) - cat[i].created_at

\* ItemsTable dividing by the maximum without taking the minimum off.
ItemsNormByMax(cat, pg) ==
    LET pop(i) == GlobalPop(pg, cat[i].ping_id)
        pops   == { pop(i) : i \in DOMAIN cat }
        hi     == SetMax(pops)
        lo     == SetMin(pops)
    IN  Table([i \in DOMAIN cat |->
            [ ping_id    |-> cat[i].ping_id,
              creator_id |-> cat[i].creator_id,
              category   |-> cat[i].category,
              global_pop |-> pop(i),
              pop_num    |-> IF hi > lo THEN pop(i) ELSE 0,
              pop_den    |-> IF hi > lo THEN hi ELSE 1,
              age_days   |-> AgeDays(cat, i),
              fresh_den  |-> 1 + AgeDays(cat, i) ]])

\* lines 148-157
ItemsTable(cat, pg) ==
    LET pop(i) == GlobalPop(pg, cat[i].ping_id)
        pops   == { pop(i) : i \in DOMAIN cat }
        hi     == SetMax(pops)
        lo     == SetMin(pops)
    IN  Table([i \in DOMAIN cat |->
            [ ping_id    |-> cat[i].ping_id,
              creator_id |-> cat[i].creator_id,
              category   |-> cat[i].category,
              global_pop |-> pop(i),
              pop_num    |-> IF hi > lo THEN pop(i) - lo ELSE 0,
              pop_den    |-> IF hi > lo THEN hi - lo ELSE 1,
              age_days   |-> AgeDays(cat, i),
              fresh_den  |-> 1 + AgeDays(cat, i) ]])

---------------------------------------------------------------------------
(* Affinity Builder: lines 160-168.                                        *)

\* line 160: left merge of the interactions with the items' category and
\* creator_id; NaN (here the string "NaN") where the ping is not in the catalog
IntMeta(tbl, cat) ==
    Table([i \in DOMAIN tbl |->
        [ user_id    |-> tbl[i].user_id,
          ping_id    |-> tbl[i].ping_id,
          category   |-> IF InCatalog(cat, tbl[i].ping_id)
                         THEN CatalogRow(cat, tbl[i].ping_id).category ELSE "NaN",
          creator_id |-> IF InCatalog(cat, tbl[i].ping_id)
                         THEN CatalogRow(cat, tbl[i].ping_id).creator_id ELSE "NaN" ]])

\* line 162: groupby('user_id').size(), every row counted
UserTotal(im, uid) == Cardinality({ i \in DOMAIN im : im[i].user_id = uid })

\* The (user_id, key) pairs in ascending order.
KeyPairs(order) ==
    Table([k \in 1..(Len(UserOrder) * Len(order)) |->
        << UserOrder[((k - 1) \div Len(order)) + 1],
           order[((k - 1) % Len(order)) + 1] >>])

\* lines 161-164: groupby(['user_id','category']).size() (a NaN key makes no
\* group), merged with user_total; cat_affinity is count / total
UserCatTable(im) ==
    LET Occurs(k) == \E i \in DOMAIN im : im[i].user_id = k[1] /\ im[i].category = k[2]
        keys == SelectSeq(KeyPairs(CategoryOrder), Occurs)
    IN  Table([n \in DOMAIN keys |->
            [ user_id  |-> keys[n][1],
              category |-> keys[n][2],
              count    |-> Cardinality({ i \in DOMAIN im :
                               im[i].user_id = keys[n][1] /\ im[i].category = keys[n][2] }),
              total    |-> UserTotal(im, keys[n][1]) ]])

\* lines 166-168
UserCreatorTable(im) ==
    LET Occurs(k) == \E i \in DOMAIN im : im[i].user_id = k[1] /\ im[i].creator_id = k[2]
        keys == SelectSeq(KeyPairs(CreatorOrder), Occurs)
    IN  Table([n \in DOMAIN keys |->
            [ user_id    |-> keys[n][1],
              creator_id |-> keys[n][2],
              count      |-> Cardinality({ i \in DOMAIN im :
                                 im[i].user_id = keys[n][1] /\ im[i].creator_id = keys[n][2] }),
              total      |-> UserTotal(im, keys[n][1]) ]])

---------------------------------------------------------------------------
(* Recommendation Ranker: lines 171-192.                                   *)

\* Default weights of recommend_for_user, in twentieths.
Alpha == 10
Beta  == 5
Gamma == 3
Delta == 2

\* lines 173-176: the user's affinity for a key as count and total; 0 when
\* the user has no row for it (fillna(0.0))
AffCount(tbl, uid, col, key) ==
    IF \E i \in DOMAIN tbl : tbl[i].user_id = uid /\ tbl[i][col] = key
    THEN tbl[CHOOSE i \in DOMAIN tbl : tbl[i].user_id = uid /\ tbl[i][col] = key].count
    ELSE 0

AffTotal(tbl, uid) ==
    IF \E i \in DOMAIN tbl : tbl[i].user_id = uid
    THEN tbl[CHOOSE i \in DOMAIN tbl : tbl[i].user_id = uid].total
    ELSE 1

\* lines 172-177: the item table with the user's affinities and the score.
\* score = (Alpha*pop_num/pop_den + Beta*cat/T + Gamma*cre/T + Delta/fresh_den)/20
\* over the denominator 20 * pop_den * T * F common to every row.
ScoredItems(its, uc, ucr, uid) ==
    LET T == IF AffTotal(uc, uid) > 1 THEN AffTotal(uc, uid) ELSE AffTotal(ucr, uid)
        D == its[1].pop_den
        F == ProdSet({ its[i].fresh_den : i \in DOMAIN its })
    IN  Table([i \in DOMAIN its |->
            LET c  == AffCount(uc, uid, "category", its[i].category)
                cr == AffCount(ucr, uid, "creator_id", its[i].creator_id)
            IN  [ ping_id      |-> its[i].ping_id,
                  category     |-> its[i].category,
                  creator_id   |-> its[i].creator_id,
                  pop_num      |-> its[i].pop_num,
                  pop_den      |-> its[i].pop_den,
                  fresh_den    |-> its[i].fresh_den,
                  user_cat_aff |-> c,
                  user_cre_aff |-> cr,
                  aff_den      |-> T,
                  score_num    |-> Alpha * its[i].pop_num * T * F
                                   + Beta * c * D * F
                                   + Gamma * cr * D * F
                                   + Delta * (F \div its[i].fresh_den) * D * T,
                  score_den    |-> 20 * D * T * F ]])

\* line 179
Seen(tbl, uid) == { tbl[i].ping_id : i \in { j \in DOMAIN tbl : tbl[j].user_id = uid } }

CatLabel == [ catA |-> "prefers cat=catA", catB |-> "prefers cat=catB" ]

\* Reason testing the creator affinity before the category affinity.
ReasonCreatorFirst(r) ==
    LET parts == (IF r.user_cre_aff > 0 THEN << "engaged this creator" >> ELSE << >>)
              \o (IF r.user_cat_aff > 0 THEN << CatLabel[r.category] >> ELSE << >>)
              \o (IF 2 * r.pop_num > r.pop_den THEN << "globally popular" >> ELSE << >>)
              \o (IF 50 > r.fresh_den THEN << "recent" >> ELSE << >>)
    IN  IF parts # << >> THEN parts ELSE << "popular/new" >>

\* lines 185-190: the labels in the order they are appended; "; ".join(parts)
\* is held as the sequence of its parts
Reason(r) ==
    LET parts == (IF r.user_cat_aff > 0 THEN << CatLabel[r.category] >> ELSE << >>)
              \o (IF r.user_cre_aff > 0 THEN << "engaged this creator" >> ELSE << >>)
              \o (IF 2 * r.pop_num > r.pop_den THEN << "globally popular" >> ELSE << >>)
              \o (IF 50 > r.fresh_den THEN << "recent" >> ELSE << >>)
    IN  IF parts # << >> THEN parts ELSE << "popular/new" >>

\* Unseen without the filter.
UnseenKeepAll(df, seen) == df

\* line 180
Unseen(df, seen) ==
    LET Keep(r) == r.ping_id \notin seen
    IN  SelectSeq(df, Keep)

\* lines 171-192: every DataFrame the call may return
RecommendResults(its, uc, ucr, tbl, uid, k) ==
    LET df == Unseen(ScoredItems(its, uc, ucr, uid), Seen(tbl, uid))
    IN  { LET top == HeadRows(Permute(df, p), k)
          IN  Table([i \in DOMAIN top |->
                 [ ping_id    |-> top[i].ping_id,
                   score_num  |-> top[i].score_num,
                   score_den  |-> top[i].score_den,
                   category   |-> top[i].category,
                   creator_id |-> top[i].creator_id,
                   reason     |-> Reason(top[i]) ]])
          : p \in DescOrders([i \in DOMAIN df |-> df[i].score_num]) }

---------------------------------------------------------------------------
(* Inputs of the model.                                                    *)

\* Catalogs the pipeline is run on. created_at is in days.
\* CatalogFull: one duration missing (filled with the median 20), one old item.
CatalogFull ==
    << [ping_id |-> "p1", creator_id |-> "c1", category |-> "catA", duration_sec |-> 30,  created_at |-> 60],
       [ping_id |-> "p2", creator_id |-> "c1", category |-> "catA", duration_sec |-> 10,  created_at |-> 60],
       [ping_id |-> "p3", creator_id |-> "c2", category |-> "catB", duration_sec |-> NaN, created_at |-> 0] >>

\* CatalogBare: no duration and no created_at known at all.
CatalogBare ==
    << [ping_id |-> "p1", creator_id |-> "c1", category |-> "catA", duration_sec |-> NaN, created_at |-> NaN],
       [ping_id |-> "p2", creator_id |-> "c2", category |-> "catA", duration_sec |-> NaN, created_at |-> NaN],
       [ping_id |-> "p3", creator_id |-> "c2", category |-> "catB", duration_sec |-> NaN, created_at |-> NaN] >>

\* CatalogPair: two items, every one of which the events can reach.
CatalogPair ==
    << [ping_id |-> "p1", creator_id |-> "c1", category |-> "catA", duration_sec |-> 30, created_at |-> NaN],
       [ping_id |-> "p2", creator_id |-> "c2", category |-> "catB", duration_sec |-> 30, created_at |-> 0] >>

Catalogs == { CatalogFull, CatalogBare, CatalogPair }

EventUsers == { "u1", "u2" }
EventPings == { "p1", "p2", "p9" }
\* (event_type, watch_time_sec) of the events given to the pipeline
EventKinds == { << "view", 15 >>, << "impression", NaN >>, << "hover", NaN >> }

Events ==
    { [user_id |-> u, ping_id |-> p, event_type |-> k[1], watch_time_sec |-> k[2]] :
        u \in EventUsers, p \in EventPings, k \in EventKinds }

\* Users recommendations are asked for: "u1", whom the events can name ("u2",
\* the other user of the events, is its mirror image), and "u3", who has no
\* event in any table.
RecUsers == { "u1", "u3" }

\* Inputs of the event scorer alone.
ScoreTypes     == { "view", "like", "comment", "share", "follow_creator", "impression", "hover", "" }
ScoreWatch     == { NaN, 0, 15, 45 }
ScoreDurations == { 10, 20, 30 }

NoRow == [event_type |-> "", watch_time_sec |-> NaN, duration_sec |-> DefaultDuration]

NoPrev == [ping_global |-> << >>, user_ping |-> << >>, recs |-> << >>, rec_uid |-> "", rec_k |-> 0]

---------------------------------------------------------------------------
(* The pipeline as a state machine.                                        *)

Init ==
    /\ pings \in Catalogs
    /\ inter = << >>
    /\ pc = "load"
    /\ user_ping = << >>
    /\ ping_global = << >>
    /\ items = << >>
    /\ user_cat = << >>
    /\ user_creator = << >>
    /\ recs = << >>
    /\ rec_uid = ""
    /\ rec_k = 0
    /\ run = 1
    /\ prev = NoPrev
    /\ row = NoRow
    /\ row_score = NaN

\* One more row in interactions.csv before the script is run.
AddEvent(e) ==
    /\ pc = "load"
    /\ run = 1
    /\ Len(inter) < MaxEvents
    /\ inter' = Append(inter, e)
    /\ UNCHANGED << pings, pc, user_ping, ping_global, items, user_cat, user_creator,
                    recs, rec_uid, rec_k, run, prev, row, row_score >>

\* lines 57-168: the script up to the definition of recommend_for_user
RunPipeline ==
    /\ pc = "load"
    /\ LET sc == ScoredInter(inter, pings)
           up == UserPingTable(sc)
       IN  /\ user_ping' = up
           /\ ping_global' \in PingGlobalTables(up)
           /\ items' = ItemsTable(pings, ping_global')
           /\ user_cat' = UserCatTable(IntMeta(inter, pings))
           /\ user_creator' = UserCreatorTable(IntMeta(inter, pings))
    /\ pc' = "ran"
    /\ UNCHANGED << pings, inter, recs, rec_uid, rec_k, run, prev, row, row_score >>

\* lines 171-192, called as on line 197. The call reads the tables and changes
\* none of them, so one call, for any uid and topk, stands for each call of the
\* loop of lines 196-198; a second execution of the script repeats the call of
\* the first.
Recommend(uid, k) ==
    /\ pc = "ran"
    /\ run = 2 => (uid = prev.rec_uid /\ k = prev.rec_k)
    /\ recs' \in RecommendResults(items, user_cat, user_creator, inter, uid, k)
    /\ rec_uid' = uid
    /\ rec_k' = k
    /\ pc' = "done"
    /\ UNCHANGED << pings, inter, user_ping, ping_global, items, user_cat,
                    user_creator, run, prev, row, row_score >>

\* The script is executed again on the same interactions.csv and pings.csv.
Restart ==
    /\ pc = "done"
    /\ run = 1
    /\ prev' = [ping_global |-> ping_global, user_ping |-> user_ping,
                recs |-> recs, rec_uid |-> rec_uid, rec_k |-> rec_k]
    /\ run' = 2
    /\ pc' = "load"
    /\ user_ping' = << >>
    /\ ping_global' = << >>
    /\ items' = << >>
    /\ user_cat' = << >>
    /\ user_creator' = << >>
    /\ recs' = << >>
    /\ rec_uid' = ""
    /\ rec_k' = 0
    /\ UNCHANGED << pings, inter, row, row_score >>

Next ==
    \/ \E e \in Events : AddEvent(e)
    \/ RunPipeline
    \/ \E uid \in RecUsers, k \in 0..MaxTopK : Recommend(uid, k)

Spec == Init /\ [][Next]_vars

NextRerun ==
    \/ Next
    \/ Restart

SpecRerun == Init /\ [][NextRerun]_vars

\* The event scorer alone: one row, scored once.
InitScore ==
    /\ pings = << >>
    /\ inter = << >>
    /\ pc = "score"
    /\ user_ping = << >>
    /\ ping_global = << >>
    /\ items = << >>
    /\ user_cat = << >>
    /\ user_creator = << >>
    /\ recs = << >>
    /\ rec_uid = ""
    /\ rec_k = 0
    /\ run = 1
    /\ prev = NoPrev
    /\ row \in [event_type : ScoreTypes, watch_time_sec : ScoreWatch, duration_sec : ScoreDurations]
    /\ row_score = NaN

\* lines 70, 73 and 92 on one row
ScoreRow ==
    /\ pc = "score"
    /\ row_score' = event_score([event_type |-> row.event_type,
                                 watch_time_ratio |-> WatchTimeRatio(row.event_type,
                                     row.watch_time_sec, row.duration_sec)])
    /\ pc' = "scored"
    /\ UNCHANGED << pings, inter, user_ping, ping_global, items, user_cat, user_creator,
                    recs, rec_uid, rec_k, run, prev, row >>

NextScore == ScoreRow

SpecScore == InitScore /\ [][NextScore]_vars

---------------------------------------------------------------------------
(* Properties.  The definitions below read the input tables (pings, inter) *)
(* and the tables the pipeline produced, and recompute what they need from *)
(* the inputs.                                                             *)

Built == pc \in { "ran", "done" }

CatalogIds == { pings[i].ping_id : i \in DOMAIN pings }

EventsOf(u, p) == { j \in DOMAIN inter : inter[j].user_id = u /\ inter[j].ping_id = p }

EventsOfUser(u) == { j \in DOMAIN inter : inter[j].user_id = u }

EventsOnPing(p) == { j \in DOMAIN inter : inter[j].ping_id = p }

RECURSIVE ScoreSum(_, _)
ScoreSum(sc, I) ==
    IF I = {} THEN 0
    ELSE LET i == CHOOSE j \in I : TRUE
         IN  sc[i].event_score + ScoreSum(sc, I \ {i})

\* The interaction table with the score of each row.
Scored == ScoredInter(inter, pings)

RowsWhere(tbl, col, v) == { i \in DOMAIN tbl : tbl[i][col] = v }

\* C1: recommend_for_user(u, topk=k) returns no ping_id that any event of u
\* names, whatever the event_type, and returns exactly min(k, number of catalog
\* items u has no event on) rows.
C1_ExcludesSeenExactCount ==
    pc = "done" =>
        /\ \A i \in DOMAIN recs : EventsOf(rec_uid, recs[i].ping_id) = {}
        /\ \A i \in DOMAIN recs : recs[i].ping_id \in CatalogIds
        /\ \A i, j \in DOMAIN recs : i # j => recs[i].ping_id # recs[j].ping_id
        /\ Len(recs) = Min2(rec_k,
               Cardinality({ p \in CatalogIds : EventsOf(rec_uid, p) = {} }))

\* A call that returns fewer than topk rows, because the user has an
\* impression or an unrecognized event on a catalog item.
C1_Witness ==
    /\ pc = "done"
    /\ 0 < Len(recs)
    /\ Len(recs) < rec_k
    /\ \E j \in EventsOfUser(rec_uid) :
          /\ inter[j].event_type \in { "impression", "hover" }
          /\ inter[j].ping_id \in CatalogIds

\* C2: a user with at least one catalog-matched event has category affinities
\* that sum to 1.0 and creator affinities that sum to 1.0; a user with none has
\* no affinity row.
C2_AffinitiesSumToOne ==
    Built =>
        \A u \in RecUsers :
            LET matched == { j \in EventsOfUser(u) : inter[j].ping_id \in CatalogIds }
                catRows == RowsWhere(user_cat, "user_id", u)
                creRows == RowsWhere(user_creator, "user_id", u)
            IN  /\ matched = {} => (catRows = {} /\ creRows = {})
                /\ matched # {} =>
                      /\ catRows # {} /\ creRows # {}
                      /\ \A i \in catRows :
                            SumSeq([n \in DOMAIN user_cat |->
                                IF n \in catRows THEN user_cat[n].count ELSE 0])
                            = user_cat[i].total
                      /\ \A i \in creRows :
                            SumSeq([n \in DOMAIN user_creator |->
                                IF n \in creRows THEN user_creator[n].count ELSE 0])
                            = user_creator[i].total

\* C3: event_score is watch_time_sec / duration_sec for a view (0 when the
\* watch time is missing), the fixed weight of a like, comment, share,
\* follow_creator or impression whatever the watch time, 0 for any other
\* event_type, and so never negative.
C3_EventScore ==
    pc = "scored" =>
        /\ row.event_type = "view" =>
              row_score * row.duration_sec
                  = Unit * (IF row.watch_time_sec = NaN THEN 0 ELSE row.watch_time_sec)
        /\ row.event_type = "like" => row_score = 2 * Unit
        /\ row.event_type = "comment" => row_score = 3 * Unit
        /\ row.event_type = "share" => row_score = 4 * Unit
        /\ row.event_type = "follow_creator" => row_score = 2 * Unit
        /\ row.event_type = "impression" => 10 * row_score = Unit
        /\ row.event_type \notin { "view", "like", "comment", "share",
                                   "follow_creator", "impression" } => row_score = 0
        /\ row_score >= 0

\* A like with a watch time, scored 2.0.
C3_Witness ==
    /\ pc = "scored"
    /\ row.event_type = "like"
    /\ row.watch_time_sec = 45
    /\ row_score = 2 * Unit

\* C4: UserPingAggregate has exactly one row per (user_id, ping_id) of the
\* events, with the sum of the pair's event scores and the number of its
\* events; PingGlobalAggregate has exactly one row per ping_id of the events,
\* with the sum of its scores over users and the number of distinct users;
\* pings absent from the catalog included.
C4_Aggregates ==
    Built =>
        LET sc == Scored IN
        /\ \A u \in Range(UserOrder), p \in Range(PingOrder) :
              Cardinality({ i \in DOMAIN user_ping :
                  user_ping[i].user_id = u /\ user_ping[i].ping_id = p })
              = IF EventsOf(u, p) = {} THEN 0 ELSE 1
        /\ \A i \in DOMAIN user_ping :
              LET I == EventsOf(user_ping[i].user_id, user_ping[i].ping_id)
              IN  /\ user_ping[i].engagement_score = ScoreSum(sc, I)
                  /\ user_ping[i].n_events = Cardinality(I)
        /\ \A p \in Range(PingOrder) :
              Cardinality(RowsWhere(ping_global, "ping_id", p))
              = IF EventsOnPing(p) = {} THEN 0 ELSE 1
        /\ \A i \in DOMAIN ping_global :
              LET I == EventsOnPing(ping_global[i].ping_id)
              IN  /\ ping_global[i].global_engagement = ScoreSum(sc, I)
                  /\ ping_global[i].global_engagement
                       = SumSeq([n \in DOMAIN user_ping |->
                             IF user_ping[n].ping_id = ping_global[i].ping_id
                             THEN user_ping[n].engagement_score ELSE 0])
                  /\ ping_global[i].users_interacted
                       = Cardinality({ inter[j].user_id : j \in I })

\* Two users with a scoring event each on a ping that is not in the catalog.
C4_Witness ==
    /\ Built
    /\ \E i \in DOMAIN ping_global :
          /\ ping_global[i].ping_id = "p9"
          /\ ping_global[i].users_interacted = 2
          /\ ping_global[i].global_engagement > 0
    /\ \A i \in DOMAIN user_ping : user_ping[i].engagement_score > 0

\* C5: every item's global_pop_norm is in [0, 1] and is
\* (global_engagement - min) / (max - min) over the catalog items, an item with
\* no event counting 0; it is 0.0 for every item when all are equal.
C5_GlobalPopNorm ==
    Built =>
        LET sc   == Scored
            G(p) == ScoreSum(sc, EventsOnPing(p))
            all  == { G(p) : p \in CatalogIds }
            hi   == SetMax(all)
            lo   == SetMin(all)
        IN  /\ Len(items) = Len(pings)
            /\ \A i \in DOMAIN items :
                  /\ items[i].ping_id = pings[i].ping_id
                  /\ items[i].pop_den > 0
                  /\ 0 <= items[i].pop_num
                  /\ items[i].pop_num <= items[i].pop_den
                  /\ hi > lo => items[i].pop_num * (hi - lo)
                                    = (G(items[i].ping_id) - lo) * items[i].pop_den
                  /\ hi = lo => items[i].pop_num = 0

\* Every catalog item has the same engagement, which is not 0.
C5_Witness ==
    /\ Built
    /\ \A i \in DOMAIN items : items[i].global_pop = items[1].global_pop
    /\ items[1].global_pop > 0
    /\ \A i \in DOMAIN items : items[i].pop_num = 0

\* The user's affinity counts, taken from the events and the catalog.
CatCount(u, c) ==
    Cardinality({ j \in EventsOfUser(u) :
        \E i \in DOMAIN pings : pings[i].ping_id = inter[j].ping_id /\ pings[i].category = c })

CreCount(u, c) ==
    Cardinality({ j \in EventsOfUser(u) :
        \E i \in DOMAIN pings : pings[i].ping_id = inter[j].ping_id /\ pings[i].creator_id = c })

ItemRow(p) == items[CHOOSE i \in DOMAIN items : items[i].ping_id = p]

\* The score of catalog item p for the user of the last call, as a numerator
\* over den: alpha*global_pop_norm + beta*cat_affinity + gamma*creator_affinity
\* + delta*freshness, the affinities being 0 for a user with no event.
ExpectedScoreNum(p, den) ==
    LET it == ItemRow(p)
        n  == Cardinality(EventsOfUser(rec_uid))
        c  == CatCount(rec_uid, it.category)
        cr == CreCount(rec_uid, it.creator_id)
        K  == den \div 20
    IN  Alpha * it.pop_num * (K \div it.pop_den)
        + (IF c = 0 THEN 0 ELSE Beta * c * (K \div n))
        + (IF cr = 0 THEN 0 ELSE Gamma * cr * (K \div n))
        + Delta * (K \div it.fresh_den)

\* C6: the rows recommend_for_user returns are in non-increasing order of
\* score = alpha*global_pop_norm + beta*user_cat_affinity
\* + gamma*user_creator_affinity + delta*freshness (alpha*global_pop_norm
\* + delta*freshness for a user with no event), and no unseen catalog item that
\* was left out scores more than a returned one.
C6_RankedByScore ==
    pc = "done" =>
        /\ \A i \in DOMAIN recs :
              LET it == ItemRow(recs[i].ping_id)
                  n  == Cardinality(EventsOfUser(rec_uid))
                  K  == recs[i].score_den \div 20
              IN  /\ recs[i].score_den > 0
                  /\ recs[i].score_den = recs[1].score_den
                  /\ K % it.pop_den = 0
                  /\ K % it.fresh_den = 0
                  /\ CatCount(rec_uid, it.category) + CreCount(rec_uid, it.creator_id) > 0
                        => K % n = 0
                  /\ recs[i].score_num = ExpectedScoreNum(recs[i].ping_id, recs[i].score_den)
                  /\ n = 0 => recs[i].score_num
                                = Alpha * it.pop_num * (K \div it.pop_den)
                                  + Delta * (K \div it.fresh_den)
        /\ \A i, j \in DOMAIN recs : i < j => recs[i].score_num >= recs[j].score_num
        /\ \A p \in CatalogIds :
              (EventsOf(rec_uid, p) = {} /\ \A i \in DOMAIN recs : recs[i].ping_id # p)
                  => \A i \in DOMAIN recs :
                        ExpectedScoreNum(p, recs[i].score_den) <= recs[i].score_num

\* A user with no event gets two rows of different score, and a third unseen
\* item is left out.
C6_Witness ==
    /\ pc = "done"
    /\ rec_uid = "u3"
    /\ Len(recs) = 2
    /\ Len(items) = 3
    /\ rec_k = 2
    /\ recs[1].score_num > recs[2].score_num
    /\ \E i \in DOMAIN items : items[i].pop_num > 0

\* C7: PingGlobalAggregate is sorted descending by global_engagement, and rows
\* with equal global_engagement are in ascending ping_id order.
C7_SortedTiesByPingId ==
    Built =>
        \A i, j \in DOMAIN ping_global : i < j =>
            \/ ping_global[i].global_engagement > ping_global[j].global_engagement
            \/ /\ ping_global[i].global_engagement = ping_global[j].global_engagement
               /\ IndexIn(PingOrder, ping_global[i].ping_id)
                    < IndexIn(PingOrder, ping_global[j].ping_id)

\* C8: no engagement_score and no global_engagement is negative, and the last
\* event added to the input lowered neither its pair's engagement_score nor its
\* ping's global_engagement below what the pipeline gives without it.
PairScore(up, u, p) ==
    IF \E i \in DOMAIN up : up[i].user_id = u /\ up[i].ping_id = p
    THEN up[CHOOSE i \in DOMAIN up : up[i].user_id = u /\ up[i].ping_id = p].engagement_score
    ELSE 0

C8_NonNegativeMonotone ==
    Built =>
        /\ \A i \in DOMAIN user_ping : user_ping[i].engagement_score >= 0
        /\ \A i \in DOMAIN ping_global : ping_global[i].global_engagement >= 0
        /\ inter # << >> =>
              LET e      == inter[Len(inter)]
                  before == UserPingTable(ScoredInter(SubSeq(inter, 1, Len(inter) - 1), pings))
              IN  /\ PairScore(user_ping, e.user_id, e.ping_id)
                       >= PairScore(before, e.user_id, e.ping_id)
                  /\ \A g \in PingGlobalTables(before) :
                        GlobalPop(ping_global, e.ping_id) >= GlobalPop(g, e.ping_id)

\* A pair with two events, the second of which raised its engagement_score.
C8_Witness ==
    /\ Built
    /\ Len(inter) = 2
    /\ inter[1].user_id = inter[2].user_id
    /\ inter[1].ping_id = inter[2].ping_id
    /\ Len(user_ping) = 1
    /\ user_ping[1].n_events = 2
    /\ user_ping[1].engagement_score > ScoreSum(Scored, {1})
    /\ ScoreSum(Scored, {1}) > 0

C10_ReasonLabels ==
    pc = "done" =>
        \A i \in DOMAIN recs :
            LET it   == ItemRow(recs[i].ping_id)
                cat  == CatCount(rec_uid, it.category) > 0
                cre  == CreCount(rec_uid, it.creator_id) > 0
                pop  == 2 * it.pop_num > it.pop_den
                new  == 50 > 1 + it.age_days
                want == (IF cat THEN << CatLabel[it.category] >> ELSE << >>)
                        \o (IF cre THEN << "engaged this creator" >> ELSE << >>)
                        \o (IF pop THEN << "globally popular" >> ELSE << >>)
                        \o (IF new THEN << "recent" >> ELSE << >>)
            IN  /\ (cat \/ cre \/ pop \/ new) => recs[i].reason = want
                /\ (recs[i].reason = << "popular/new" >>) <=> ~(cat \/ cre \/ pop \/ new)

\* One call returns a row with all four labels and a row with the fallback.
C10_Witness ==
    /\ pc = "done"
    /\ \E i \in DOMAIN recs : Len(recs[i].reason) = 4
    /\ \E i \in DOMAIN recs : recs[i].reason = << "popular/new" >>

=============================================================================
